---- MODULE Spec2Model ----
(***************************************************************************)
(* Claims platform (BHYT): claim creation and claim numbers, the claim     *)
(* status lifecycle and its audit trail, insurance-card validation, policy *)
(* resolution and coverage calculation.                                    *)
(*                                                                         *)
(* Amounts are integers in hundredths of the currency unit, the            *)
(* granularity of the Numeric(15, 2) columns that store them.  Dates are   *)
(* day numbers, month keys (YYYYMM) are month numbers.  A claim number is  *)
(* the pair of its month key (the "BHYT{year}{month:02d}" prefix, ten      *)
(* characters for every four-digit year) and the string of decimal digits  *)
(* that follows the prefix.                                                *)
(***************************************************************************)
EXTENDS Integers, Sequences, FiniteSets, TLC

\* ------------------------------------------------------------------ bounds
MaxMonth == 2
MaxDay == 3
RetryLimit == 2
MaxLogins == 2
MaxThreshold == 2
MaxTimeout == 2
MaxClock == 4
MaxFailureCount == 3

\* -------------------------------------------------------- program constants
SeqWidth == 6

None == "None"

ALL_STATUSES == {"submitted", "reviewing", "approved", "rejected", "paid"}
valid_visit_types == {"inpatient", "outpatient", "emergency"}
valid_statuses == {"submitted", "reviewing", "approved", "rejected", "paid"}

\* ------------------------------------------------------- processes, inputs
Creators == {"k1", "k2"}
Reviewers == {"r1", "r2"}
Months == 1..MaxMonth
Dates == 0..MaxDay

VisitInputs == {"outpatient", "surgery"}
StatusInputs == {None, "submitted", "approved", "bogus"}
Reasons == {None, "checked"}

VARIABLES
    now,             \* the claims service's clock: the current month key
    claims,          \* table claims: committed rows, by creation request
    status_history,  \* table claim_status_history: the rows of each claim
    pc,              \* each creation request's position
    obj,             \* the Claim object each creation request has built
    req,             \* each reviewer's current request and its response
    today,           \* the policy service's clock: the current date
    cards,           \* table insurance_cards, by card number
    vresp,           \* the last response of validate_card
    eresp,           \* the last response of check_eligibility
    aresp,           \* the last response of an adjudication entry point
    attempts,        \* each creation request's count of number reassignments
    tokens,          \* the access tokens issued, by login
    user_sessions,   \* table user_sessions, by session id
    blacklisted_tokens,  \* the Redis set 'blacklisted_tokens'
    uresp,           \* the last response of the user-management service
    breaker,         \* the gateway's CircuitBreaker object
    calls,           \* each gateway caller's call() in progress and last outcome
    clock            \* the gateway's clock, datetime.now().timestamp()

vars == <<now, claims, status_history, pc, obj, req, today, cards, vresp, eresp,
          aresp, attempts, tokens, user_sessions, blacklisted_tokens, uresp,
          breaker, calls, clock>>
userVars == <<tokens, user_sessions, blacklisted_tokens, uresp>>
gatewayVars == <<breaker, calls, clock>>
claimVars == <<now, claims, status_history, pc, obj, req, attempts>>
cardVars == <<today, cards, vresp, eresp>>
adjVars == <<aresp>>
\* what the claims service, the card routes, the policy service leave alone
nonClaimVars == <<cardVars, adjVars, userVars, gatewayVars>>
nonCardVars == <<claimVars, adjVars, userVars, gatewayVars>>
nonPolicyVars == <<claimVars, userVars, gatewayVars>>
nonUserVars == <<claimVars, cardVars, adjVars, gatewayVars>>
nonGatewayVars == <<claimVars, cardVars, adjVars, userVars>>

\* ------------------------------------------------------ strings of digits
Max2(a, b) == IF a >= b THEN a ELSE b
Min2(a, b) == IF a <= b THEN a ELSE b

RECURSIVE Digits(_)
\* str(n): the decimal digits of n, most significant first
Digits(n) == IF n < 10 THEN <<n>> ELSE Append(Digits(n \div 10), n % 10)

RECURSIVE Zeros(_)
Zeros(k) == IF k <= 0 THEN <<>> ELSE <<0>> \o Zeros(k - 1)

\* f"{n:06d}": zero-padded to SeqWidth digits, longer when n needs more
Format06(n) == Zeros(SeqWidth - Len(Digits(n))) \o Digits(n)

RECURSIVE ToInt(_)
\* int(s) of a string of digits
ToInt(s) == IF s = <<>> THEN 0 ELSE 10 * ToInt(SubSeq(s, 1, Len(s) - 1)) + s[Len(s)]

\* s[-6:]
Last6(s) == SubSeq(s, Max2(1, Len(s) - SeqWidth + 1), Len(s))

\* the order of strings the database sorts claim_number by
StrLess(a, b) ==
    \E i \in 1..(Min2(Len(a), Len(b)) + 1) :
        /\ \A j \in 1..(i - 1) : a[j] = b[j]
        /\ \/ i = Len(a) + 1 /\ i <= Len(b)
           \/ i <= Len(a) /\ i <= Len(b) /\ a[i] < b[i]

NoNumber == [prefix |-> 0, seq |-> <<>>]

\* ------------------------------------------------------ coverage policies
\* a nullable column holds {} (NULL) or {v}
Null == {}
Some(v) == {v}
IsNull(o) == o = {}
Val(o) == CHOOSE v \in o : TRUE

\* the rows of coverage_policies: percentages in 0..100, deductibles >= 0
Policies == {
    [id |-> "p1", card_type_id |-> "TE1", policy_type |-> "outpatient",
     facility_level |-> "district", coverage_percentage |-> 80, max_amount |-> Null, deductible |-> Some(0),
     effective_from |-> 0, effective_to |-> Null, is_active |-> TRUE],
    [id |-> "p2", card_type_id |-> "TE1", policy_type |-> "outpatient",
     facility_level |-> "district", coverage_percentage |-> 100, max_amount |-> Some(150),
     deductible |-> Some(50),
     effective_from |-> 1, effective_to |-> Some(2), is_active |-> TRUE],
    [id |-> "p3", card_type_id |-> "TE2", policy_type |-> "inpatient",
     facility_level |-> "central", coverage_percentage |-> 33, max_amount |-> Null,
     deductible |-> Null,
     effective_from |-> 0, effective_to |-> Null, is_active |-> TRUE],
    [id |-> "p4", card_type_id |-> "TE1", policy_type |-> "inpatient",
     facility_level |-> "district", coverage_percentage |-> 100, max_amount |-> Null,
     deductible |-> Some(0),
     effective_from |-> 2, effective_to |-> Null, is_active |-> TRUE],
    [id |-> "p5", card_type_id |-> "TE1", policy_type |-> "outpatient",
     facility_level |-> "district", coverage_percentage |-> 80, max_amount |-> Null,
     deductible |-> Null,
     effective_from |-> 0, effective_to |-> Null, is_active |-> TRUE],
    [id |-> "p6", card_type_id |-> "TE1", policy_type |-> "inpatient",
     facility_level |-> "district", coverage_percentage |-> 100, max_amount |-> Some(0),
     deductible |-> Some(0),
     effective_from |-> 0, effective_to |-> Null, is_active |-> TRUE],
    [id |-> "p7", card_type_id |-> "TE1", policy_type |-> "outpatient",
     facility_level |-> "district", coverage_percentage |-> 100, max_amount |-> Null,
     deductible |-> Some(0),
     effective_from |-> 0, effective_to |-> Null, is_active |-> FALSE] }

\* billed amounts, in hundredths
Amounts == {44, 260}

is_applicable(policy, check_date) ==
    IF ~policy.is_active THEN FALSE
    ELSE IF check_date < policy.effective_from THEN FALSE
    ELSE IF ~IsNull(policy.effective_to) /\ check_date > Val(policy.effective_to)
         THEN FALSE
    ELSE TRUE

\* round(x, 2) of x = whole + num / den hundredths: to the nearest hundredth, a
\* tie to the even one (the amounts and percentages used here give no tie)
Round2(whole, num, den) ==
    LET q == whole + num \div den
        r == num % den
    IN  IF 2 * r < den THEN q
        ELSE IF 2 * r > den THEN q + 1
        ELSE IF q % 2 = 0 THEN q ELSE q + 1

\* float(x or 0) of a nullable amount
OrZero(o) == IF IsNull(o) THEN 0 ELSE Val(o)

calculate_coverage_nopercent(policy, total_amount, day) ==
    IF ~is_applicable(policy, day) THEN 0
    ELSE Max2(0, total_amount - OrZero(policy.deductible)) * policy.coverage_percentage

calculate_coverage_always(policy, total_amount, day) ==
    LET after == Max2(0, total_amount - OrZero(policy.deductible))
        percent == Round2((after \div 100) * policy.coverage_percentage,
                          (after % 100) * policy.coverage_percentage, 100)
    IN  IF ~IsNull(policy.max_amount) /\ Val(policy.max_amount) # 0
        THEN Min2(percent, Val(policy.max_amount))
        ELSE percent

\* calculate_coverage run on date day (date.today() inside is_applicable)
calculate_coverage(policy, total_amount, day) ==
    IF ~is_applicable(policy, day) THEN 0
    ELSE LET after == Max2(0, total_amount - OrZero(policy.deductible))
             \* after * percentage / 100, the hundreds of after taken apart
             percent == Round2((after \div 100) * policy.coverage_percentage,
                               (after % 100) * policy.coverage_percentage, 100)
             \* "if self.max_amount:" is false of NULL and of 0; a cap is a
             \* whole number of hundredths, so it commutes with the rounding
         IN  IF ~IsNull(policy.max_amount) /\ Val(policy.max_amount) # 0
             THEN Min2(percent, Val(policy.max_amount))
             ELSE percent

\* validate_policy's entry for one policy, as a claim stores its amounts in
\* Numeric(15, 2) columns: the covered amount and what is left, in hundredths
CoverageEntry(policy, total_amount, day) ==
    LET covered_amount == calculate_coverage(policy, total_amount, day)
    IN  [total_amount |-> total_amount,
         covered_amount |-> covered_amount,
         patient_payment |-> total_amount - covered_amount]

\* the summaries an adjudication can return: the best entry is one of the entries
AdjudicationResults ==
    {CoverageEntry(p, t, d) : p \in Policies, t \in Amounts, d \in Dates}

\* ---------------------------------------------------------- claim creation
EmptyObj == [claim_number |-> NoNumber, status |-> None,
             total_amount |-> 0, covered_amount |-> 0, patient_payment |-> 0,
             reviewed_at |-> Null, payment_date |-> Null]

\* Claim.query.filter(claim_number.like(prefix%)).order_by(claim_number.desc())
\* .first(): the committed row of month key m with the greatest number string
LatestClaims(m) ==
    {c \in DOMAIN claims :
        /\ claims[c].claim_number.prefix = m
        /\ \A d \in DOMAIN claims :
              claims[d].claim_number.prefix = m
              => ~StrLess(claims[c].claim_number.seq, claims[d].claim_number.seq)}

\* Claim._generate_claim_number at month key m; new_number holds the one
\* number computed, so that each value is computed once
generate_claim_number(m) ==
    LET new_number ==
            IF LatestClaims(m) # {}
            THEN {ToInt(Last6(claims[latest_claim].claim_number.seq)) + 1 :
                     latest_claim \in {CHOOSE c \in LatestClaims(m) : TRUE}}
            ELSE {1}
    IN  CHOOSE number \in {[prefix |-> m, seq |-> Format06(n)] : n \in new_number} :
            TRUE

\* Claim.__init__(**kwargs): kwargs hold the visit type, the adjudicated amounts
\* and, if the caller gives one, a status; no claim_number
Construct(p) ==
    /\ pc[p] = "idle"
    /\ \E visit_type \in VisitInputs, status \in StatusInputs,
          ar \in AdjudicationResults :
          IF \/ visit_type \notin valid_visit_types
             \/ status # None /\ status \notin valid_statuses
          THEN /\ pc' = [pc EXCEPT ![p] = "value_error"]
               /\ obj' = obj
          ELSE /\ pc' = [pc EXCEPT ![p] = "constructed"]
               /\ obj' = [obj EXCEPT ![p] =
                            [claim_number |-> generate_claim_number(now),
                             status |-> status,
                             total_amount |-> ar.total_amount,
                             covered_amount |-> ar.covered_amount,
                             patient_payment |-> ar.patient_payment,
                             reviewed_at |-> Null, payment_date |-> Null]]
    /\ UNCHANGED <<now, claims, status_history, req, attempts>>

\* the column default of Claim.status, applied when the row is inserted
StatusOrDefault(status) == IF status = None THEN "submitted" ELSE status

\* claims.claim_number is unique: the insert of a number a row holds fails
NumberTaken(number) == \E c \in DOMAIN claims : claims[c].claim_number = number

HistoryEntry_Swapped(old_status, new_status, changed_by, reason) ==
    [old_status |-> new_status, new_status |-> old_status,
     changed_by |-> changed_by, reason |-> reason]

\* a ClaimStatusHistory row
HistoryEntry(old_status, new_status, changed_by, reason) ==
    [old_status |-> old_status, new_status |-> new_status,
     changed_by |-> changed_by, reason |-> reason]

AppendStatusHistory_Overwrite(history, entry) ==
    IF history = <<>> THEN <<entry>>
    ELSE [history EXCEPT ![Len(history)] = entry]

\* the audit row is appended to the claim's history
AppendStatusHistory(history, entry) == Append(history, entry)

\* the initial ClaimStatusHistory entry of a claim
InitialEntry(status) == HistoryEntry(None, status, "submitter", None)

\* FileClaim's persistence: the claim row and its initial history entry are
\* committed as one unit
Save(p) ==
    /\ pc[p] = "constructed"
    /\ IF NumberTaken(obj[p].claim_number)
       THEN /\ pc' = [pc EXCEPT ![p] = "integrity_error"]
            /\ UNCHANGED <<claims, status_history>>
       ELSE LET row == [obj[p] EXCEPT !.status = StatusOrDefault(obj[p].status)]
            IN  /\ claims' = claims @@ (p :> row)
                /\ status_history' = status_history
                        @@ (p :> AppendStatusHistory(<<>>, InitialEntry(row.status)))
                /\ pc' = [pc EXCEPT ![p] = "saved"]
    /\ UNCHANGED <<now, obj, req, attempts>>

\* persistence fails after the number was generated
SaveFails(p) ==
    /\ pc[p] = "constructed"
    /\ pc' = [pc EXCEPT ![p] = "persist_error"]
    /\ UNCHANGED <<now, claims, status_history, obj, req, attempts>>

CountAttempt_Forgotten(n) == n

\* one more reassignment counted against the bound
CountAttempt(n) == n + 1

\* the automatic retry on SequenceExhaustionOrConflict: the assignment step
\* alone is run again, at most RetryLimit times; then the failure is surfaced
Reassign(p) ==
    /\ pc[p] = "integrity_error"
    /\ IF attempts[p] < RetryLimit
       THEN /\ obj' = [obj EXCEPT ![p].claim_number = generate_claim_number(now)]
            /\ attempts' = [attempts EXCEPT ![p] = CountAttempt(@)]
            /\ pc' = [pc EXCEPT ![p] = "constructed"]
       ELSE /\ pc' = [pc EXCEPT ![p] = "SequenceExhaustionOrConflict"]
            /\ UNCHANGED <<obj, attempts>>
    /\ UNCHANGED <<now, claims, status_history, req>>

\* datetime.now() passes into the next month
NextMonth ==
    /\ now < MaxMonth
    /\ now' = now + 1
    /\ UNCHANGED <<claims, status_history, pc, obj, req, attempts>>

\* ------------------------------------------------------- claim lifecycle
AllowedTransitions_Reopen ==
    {<<"submitted", "reviewing">>, <<"reviewing", "approved">>,
     <<"reviewing", "rejected">>, <<"approved", "paid">>,
     <<"rejected", "reviewing">>, <<"submitted", "paid">>}

\* the edges of the claim lifecycle
AllowedTransitions ==
    {<<"submitted", "reviewing">>, <<"reviewing", "approved">>,
     <<"reviewing", "rejected">>, <<"approved", "paid">>}

IdleReq == [phase |-> "idle", claim |-> None, seen |-> None,
            new_status |-> None, reason |-> None, result |-> None]

\* GET /claims/{claim_id}: the reviewer reads the claim
Fetch(r, c) ==
    /\ req[r].phase \in {"idle", "done"}
    /\ c \in DOMAIN claims
    /\ req' = [req EXCEPT ![r] = [phase |-> "fetched", claim |-> c,
                                   seen |-> claims[c].status,
                                   new_status |-> None, reason |-> None,
                                   result |-> None]]
    /\ UNCHANGED <<now, claims, status_history, pc, obj, attempts>>

StatusRead_Stale(r, c) == req[r].seen

\* the status the transition's transaction validates the edge against: the
\* claim's current one, read inside the transaction
StatusRead(r, c) == claims[c].status


\* the timestamp fields relevant to the transition: reviewed_at on entry into
\* reviewing, approved or rejected, payment_date on entry into paid
Stamp(row, new_status) ==
    IF new_status \in {"reviewing", "approved", "rejected"}
    THEN [row EXCEPT !.reviewed_at = Some(now)]
    ELSE IF new_status = "paid"
    THEN [row EXCEPT !.payment_date = Some(now)]
    ELSE row

\* Transition(claim, newStatus, actor, reason) for PUT /claims/{claim_id}/status:
\* one transaction reads the status, validates the edge, writes the status and
\* the audit row
Transition(r, new_status, reason) ==
    /\ req[r].phase = "fetched"
    /\ LET c == req[r].claim
           old_status == StatusRead(r, c)
       IN  IF <<old_status, new_status>> \in AllowedTransitions
           THEN /\ claims' = [claims EXCEPT ![c] = Stamp(
                                 [@ EXCEPT !.status = new_status], new_status)]
                /\ status_history' =
                     [status_history EXCEPT ![c] =
                        AppendStatusHistory(@,
                            HistoryEntry(old_status, new_status, r, reason))]
                /\ req' = [req EXCEPT ![r].phase = "done",
                                      ![r].new_status = new_status,
                                      ![r].reason = reason,
                                      ![r].result = "ok"]
           ELSE /\ req' = [req EXCEPT ![r].phase = "done",
                                      ![r].new_status = new_status,
                                      ![r].reason = reason,
                                      ![r].result = "InvalidTransition"]
                /\ UNCHANGED <<claims, status_history>>
    /\ UNCHANGED <<now, pc, obj, attempts>>

\* --------------------------------------------------------- insurance cards
CardStatuses == {"active", "suspended", "expired", "cancelled"}
CardNumbers == {"card1"}
CardInputs == CardNumbers \cup {"nocard"}
CardDates == 1..(MaxDay - 1)

\* the rows insurance_cards can hold: the validity window is non-decreasing
CardRows ==
    {c \in [status : CardStatuses, card_type_id : {"TE1"},
            valid_from : CardDates, valid_to : CardDates] :
        c.valid_from <= c.valid_to}

NoCard == [status |-> None, card_type_id |-> None, valid_from |-> 0, valid_to |-> 0]

is_valid_exclusive(card, check_date) ==
    /\ card.status = "active"
    /\ card.valid_from < check_date /\ check_date < card.valid_to

\* InsuranceCard.is_valid(check_date)
is_valid(card, check_date) ==
    /\ card.status = "active"
    /\ card.valid_from <= check_date /\ check_date <= card.valid_to

StatusReason(card) == [kind |-> "status", status |-> card.status]
NotYetValidReason == [kind |-> "not_yet_valid", status |-> None]
ExpiredReason == [kind |-> "expired", status |-> None]

validate_card_reasons_first(card, check_date) ==
    IF card.status # "active" THEN <<StatusReason(card)>>
    ELSE IF check_date < card.valid_from THEN <<NotYetValidReason>>
    ELSE IF check_date > card.valid_to THEN <<ExpiredReason>>
    ELSE <<>>

\* validate_card: the reasons appended for an invalid card
validate_card_reasons(card, check_date) ==
    (IF card.status # "active" THEN <<StatusReason(card)>> ELSE <<>>)
    \o (IF check_date < card.valid_from THEN <<NotYetValidReason>> ELSE <<>>)
    \o (IF check_date > card.valid_to THEN <<ExpiredReason>> ELSE <<>>)

\* check_eligibility: the reasons appended for an invalid card
check_eligibility_reasons(card, check_date) ==
    (IF card.status # "active" THEN <<StatusReason(card)>> ELSE <<>>)
    \o (IF check_date < card.valid_from THEN <<NotYetValidReason>> ELSE <<>>)
    \o (IF check_date > card.valid_to THEN <<ExpiredReason>> ELSE <<>>)

NoResponse == [code |-> 0, card |-> NoCard, is_valid |-> FALSE, check_date |-> 0,
               status_valid |-> FALSE, date_valid |-> FALSE, expires_in_days |-> 0,
               reasons |-> <<>>, total_policies |-> 0]

\* GET /<card_number>/validate
validate_card(card_number) ==
    /\ IF card_number \notin DOMAIN cards
       THEN vresp' = [NoResponse EXCEPT !.code = 404]
       ELSE LET card == cards[card_number]
                check_date == today
                valid == is_valid(card, check_date)
            IN  vresp' = [code |-> 200, card |-> card, is_valid |-> valid,
                          check_date |-> check_date,
                          status_valid |-> card.status = "active",
                          date_valid |-> (card.valid_from <= check_date
                                            /\ check_date <= card.valid_to),
                          expires_in_days |-> IF card.valid_to >= check_date
                                              THEN card.valid_to - check_date ELSE 0,
                          reasons |-> IF ~valid
                                      THEN validate_card_reasons(card, check_date)
                                      ELSE <<>>,
                          total_policies |-> 0]
    /\ UNCHANGED <<today, cards, eresp>>

\* check_eligibility's query: the active policies of the card's type in force
\* on check_date
available_policies(card, check_date) ==
    {p \in Policies :
        /\ p.card_type_id = card.card_type_id
        /\ p.is_active
        /\ p.effective_from <= check_date
        /\ (IsNull(p.effective_to) \/ Val(p.effective_to) >= check_date)}

\* POST /eligibility
check_eligibility(card_number) ==
    /\ IF card_number \notin DOMAIN cards
       THEN eresp' = [NoResponse EXCEPT !.code = 404]
       ELSE LET card == cards[card_number]
                check_date == today
                valid == is_valid(card, check_date)
            IN  eresp' = [NoResponse EXCEPT
                            !.code = 200, !.card = card, !.is_valid = valid,
                            !.check_date = check_date,
                            !.reasons = IF valid THEN <<>>
                                        ELSE check_eligibility_reasons(card, check_date),
                            !.total_policies =
                                IF valid
                                THEN Cardinality(available_policies(card, check_date))
                                ELSE 0]
    /\ UNCHANGED <<today, cards, vresp>>

\* date.today() passes into the next day
NextDay ==
    /\ today < MaxDay
    /\ today' = today + 1
    /\ UNCHANGED <<cards, vresp, eresp>>

\* ---------------------------------------------------- floating-point amounts
\* The policy service computes with Python floats, IEEE 754 doubles: a result
\* keeps MantissaBits significant bits, rounded to nearest, a tie to even.
MantissaBits == 53

\* A magnitude is a natural number of units 2^-FracBits, written as its bits,
\* the least significant first, the last one 1; <<>> is 0.  FracBits binary
\* places hold exactly every double of magnitude 2^-11 and more, so every
\* amount of a hundredth and more.
FracBits == MantissaBits + 11

\* a without its leading zeros
Trim(a) ==
    LET ones == {i \in 1..Len(a) : a[i] = 1}
    IN  IF ones = {} THEN <<>>
        ELSE SubSeq(a, 1, CHOOSE i \in ones : \A j \in ones : j <= i)

Bit(a, i) == IF i <= Len(a) THEN a[i] ELSE 0

\* a + b: place i takes a carry when a lower place makes one and every place
\* between passes it on
BitsAdd(a, b) ==
    LET n == Max2(Len(a), Len(b)) + 1
        carry(i) == \E j \in 1..(i - 1) :
                        /\ Bit(a, j) + Bit(b, j) = 2
                        /\ \A m \in (j + 1)..(i - 1) : Bit(a, m) + Bit(b, m) >= 1
    IN  Trim([i \in 1..n |->
                (Bit(a, i) + Bit(b, i) + IF carry(i) THEN 1 ELSE 0) % 2])

\* a - b, for a >= b: place i lends when a lower place borrows and every
\* place between passes the borrow on
BitsSub(a, b) ==
    LET borrow(i) == \E j \in 1..(i - 1) :
                         /\ Bit(a, j) < Bit(b, j)
                         /\ \A m \in (j + 1)..(i - 1) : Bit(a, m) <= Bit(b, m)
    IN  Trim([i \in 1..Len(a) |->
                (Bit(a, i) - Bit(b, i) - IF borrow(i) THEN 1 ELSE 0) % 2])

\* a quotient with one more 16-bit limb below
PutLimb(limb, rest) == [q |-> <<limb>> \o rest.q, r |-> rest.r]

RECURSIVE LimbsDiv(_, _, _, _)
\* long division by the small number d of the 16-bit limbs i.. of a, the most
\* significant first, rem carried in
LimbsDiv(a, i, rem, d) ==
    IF i > Len(a) THEN [q |-> <<>>, r |-> rem]
    ELSE LET cur == 65536 * rem + a[i]
         IN  PutLimb(cur \div d, LimbsDiv(a, i + 1, cur % d, d))

\* the bits of a number given by its 16-bit limbs
LimbsToBits(a) ==
    Trim([p \in 1..(16 * Len(a)) |->
            (a[Len(a) - (p - 1) \div 16] \div 2 ^ ((p - 1) % 16)) % 2])

\* a < b, both without leading zeros
BitsLess(a, b) ==
    \/ Len(a) < Len(b)
    \/ /\ Len(a) = Len(b)
       /\ \E i \in 1..Len(a) :
             /\ a[i] < b[i]
             /\ \A j \in (i + 1)..Len(a) : a[j] = b[j]

\* round to nearest, ties to even, keeping MantissaBits significant bits;
\* sticky says that the exact value lies above a
RoundBits(a, sticky) ==
    LET k == Len(a) - MantissaBits
    IN  IF k <= 0 THEN a
        ELSE LET high == SubSeq(a, k + 1, Len(a))
                 half == a[k] = 1
                 rest == sticky \/ \E i \in 1..(k - 1) : a[i] = 1
                 up == half /\ (rest \/ high[1] = 1)
             IN  [i \in 1..k |-> 0] \o (IF up THEN BitsAdd(high, <<1>>) ELSE high)

\* the double nearest to h hundredths: what parsing the JSON number, float()
\* and round(x, 2) give for a two-decimal value
float(h) ==
    [neg |-> h < 0,
     mag |-> IF h = 0 THEN <<>>
             ELSE LET n == IF h < 0 THEN 0 - h ELSE h
                      \* n * 2^FracBits, in 16-bit limbs
                      limbs == <<n \div 65536, n % 65536>>
                                 \o [i \in 1..(FracBits \div 16) |-> 0]
                      d == LimbsDiv(limbs, 1, 0, 100)
                  IN  RoundBits(LimbsToBits(d.q), d.r # 0)]

\* x - y and x + y of doubles; when neither is 0 the operands are amounts
\* with x >= y >= 0 (a bill and its covered part, a covered part and the rest)
fsub(x, y) ==
    IF y.mag = <<>> THEN x
    ELSE [neg |-> FALSE, mag |-> RoundBits(BitsSub(x.mag, y.mag), FALSE)]

fadd(x, y) ==
    IF x.mag = <<>> THEN y
    ELSE IF y.mag = <<>> THEN x
    ELSE [neg |-> FALSE, mag |-> RoundBits(BitsAdd(x.mag, y.mag), FALSE)]

\* x <= y of doubles
FloatLeq(x, y) ==
    \/ x = y
    \/ x.neg /\ ~y.neg
    \/ ~x.neg /\ ~y.neg /\ BitsLess(x.mag, y.mag)
    \/ x.neg /\ y.neg /\ BitsLess(y.mag, x.mag)

\* ------------------------------------------------------------ adjudication
\* insurance_card_types, by code; the id of a type is written as its code
CardTypes == {"TE1", "TE2"}
CardTypeInputs == CardTypes \cup {"TE9"}

\* healthcare_facilities, by code
Facilities == [f1 |-> [level |-> "district", is_active |-> TRUE],
               f2 |-> [level |-> "central", is_active |-> TRUE],
               f3 |-> [level |-> "district", is_active |-> FALSE]]
FacilityInputs == DOMAIN Facilities \cup {"nofac"}
PolicyTypeInputs == {"outpatient", "inpatient"}
LevelInputs == {"district", "central"}

\* the total_amount of a request: a JSON number of so many hundredths, or a
\* string that is no number
BilledValues == Amounts \cup {0, 0 - 44}
AmountInputs ==
    {[numeric |-> TRUE, value |-> v] : v \in BilledValues}
        \cup {[numeric |-> FALSE, value |-> 0]}

find_applicable_policies_strict(card_type_id, policy_type, facility_level, check_date) ==
    {p \in Policies :
        /\ p.card_type_id = card_type_id
        /\ p.policy_type = policy_type
        /\ p.facility_level = facility_level
        /\ p.is_active
        /\ p.effective_from <= check_date
        /\ (IsNull(p.effective_to) \/ Val(p.effective_to) > check_date)}

\* CoveragePolicy.find_applicable_policies: the rows query.all() returns
find_applicable_policies(card_type_id, policy_type, facility_level, check_date) ==
    {p \in Policies :
        /\ p.card_type_id = card_type_id
        /\ p.policy_type = policy_type
        /\ p.facility_level = facility_level
        /\ p.is_active = TRUE
        /\ p.effective_from <= check_date
        /\ (IsNull(p.effective_to) \/ Val(p.effective_to) >= check_date)}

\* the query has no ORDER BY: the database may return the rows in any order
Orders(rows) ==
    {o \in [1..Cardinality(rows) -> rows] :
        \A i, j \in 1..Cardinality(rows) : i # j => o[i] # o[j]}

\* total_amount - covered_amount, tabulated once for the amounts that occur
CoveredValues ==
    {calculate_coverage(p, t, d) : p \in Policies, t \in BilledValues, d \in Dates}
PatientPayments ==
    [t \in BilledValues, c \in CoveredValues |-> fsub(float(t), float(c))]

coverage_calculation_free(policy, total_amount, day) ==
    [policy |-> policy.id,
     covered_amount |-> calculate_coverage(policy, total_amount, day),
     patient_payment |-> PatientPayments[total_amount, 0]]

\* one element of coverage_calculations (coverage_results in the route): the
\* covered amount is the double nearest to covered_amount hundredths
coverage_calculation(policy, total_amount, day) ==
    LET covered_amount == calculate_coverage(policy, total_amount, day)
    IN  [policy |-> policy.id,
         covered_amount |-> covered_amount,
         patient_payment |-> PatientPayments[total_amount, covered_amount]]

NoCalculation == [policy |-> None, covered_amount |-> 0, patient_payment |-> float(0)]

max_first(calcs) == calcs[1]

\* max(calcs, key=lambda x: x['covered_amount']): the first of the elements
\* with the greatest key
max(calcs) ==
    calcs[CHOOSE i \in 1..Len(calcs) :
            /\ \A j \in 1..Len(calcs) : calcs[j].covered_amount <= calcs[i].covered_amount
            /\ \A j \in 1..(i - 1) : calcs[j].covered_amount < calcs[i].covered_amount]

NoAdjudication ==
    [endpoint |-> None, code |-> 0, error |-> None,
     total_amount |-> [numeric |-> TRUE, value |-> 0],
     check_date |-> 0, calc_date |-> 0,
     facility_code |-> None, card_details |-> NoCard, reasons |-> <<>>,
     card_type_id |-> None, policy_type |-> None, facility_level |-> None,
     lookups |-> {}, policies |-> <<>>,
     all_applicable_policies |-> <<>>, best |-> NoCalculation,
     summary |-> NoCalculation]

coverage_response_zero(base, policies, total_amount, not_found) ==
    IF policies = <<>> THEN [base EXCEPT !.code = 200]
    ELSE LET calcs == [i \in 1..Len(policies) |->
                         coverage_calculation(policies[i], total_amount, base.calc_date)]
         IN  [base EXCEPT !.code = 200, !.policies = policies,
                          !.all_applicable_policies = calcs, !.best = max(calcs)]

\* what both entry points do with the policies found: the no-applicable-policy
\* response with the entry point's status code, or the calculations and the best
coverage_response(base, policies, total_amount, not_found) ==
    IF policies = <<>>
    THEN [base EXCEPT !.code = not_found, !.error = "no_applicable_policy"]
    ELSE LET calcs == [i \in 1..Len(policies) |->
                         coverage_calculation(policies[i], total_amount, base.calc_date)]
         IN  [base EXCEPT !.code = 200, !.policies = policies,
                          !.all_applicable_policies = calcs, !.best = max(calcs)]

\* coverage_calculation.summary: the amounts of best_policy
summary(resp) ==
    IF resp.code # 200 THEN resp
    ELSE [resp EXCEPT !.summary = [policy |-> None,
                                   covered_amount |-> resp.best.covered_amount,
                                   patient_payment |-> resp.best.patient_payment]]

\* POST /policy of the validation blueprint
validate_policy(card_number, facility_code, policy_type, total_amount, service_date) ==
    /\ LET base == [NoAdjudication EXCEPT
                      !.endpoint = "validate_policy", !.total_amount = total_amount,
                      !.check_date = service_date, !.calc_date = today,
                      !.policy_type = policy_type]
       IN  IF ~total_amount.numeric \/ total_amount.value <= 0
           THEN aresp' = [base EXCEPT !.code = 400, !.error = "validation_error"]
           ELSE IF card_number \notin DOMAIN cards
           THEN aresp' = [base EXCEPT !.code = 400, !.error = "card_not_found",
                                      !.lookups = {"insurance_cards"}]
           ELSE IF ~is_valid(cards[card_number], service_date)
           THEN \* the card's to_dict() goes out as card_details, no reason does
                aresp' = [base EXCEPT !.code = 400, !.error = "card_invalid",
                                      !.card_details = cards[card_number],
                                      !.lookups = {"insurance_cards"}]
           ELSE IF \/ facility_code \notin DOMAIN Facilities
                   \/ ~Facilities[facility_code].is_active
           THEN aresp' = [base EXCEPT !.code = 400, !.error = "facility_invalid",
                                      !.facility_code = facility_code,
                                      !.lookups = {"insurance_cards",
                                                   "healthcare_facilities"}]
           ELSE LET card == cards[card_number]
                    facility == Facilities[facility_code]
                    found == [base EXCEPT
                                !.card_type_id = card.card_type_id,
                                !.facility_code = facility_code,
                                !.facility_level = facility.level,
                                !.lookups = {"insurance_cards", "healthcare_facilities",
                                             "coverage_policies"}]
                IN  \E policies \in Orders(find_applicable_policies(
                            card.card_type_id, policy_type, facility.level,
                            service_date)) :
                        aresp' = summary(coverage_response(found, policies,
                                                           total_amount.value, 400))
    /\ UNCHANGED <<today, cards, vresp, eresp>>

\* POST /calculate-coverage of the policies blueprint; a request without a
\* policy_type carries None
calculate_coverage_route(card_type_code, policy_type, facility_level, total_amount) ==
    /\ LET base == [NoAdjudication EXCEPT
                      !.endpoint = "calculate_coverage", !.total_amount = total_amount,
                      !.check_date = today, !.calc_date = today,
                      !.policy_type = policy_type, !.facility_level = facility_level]
       IN  IF ~total_amount.numeric
           THEN aresp' = [base EXCEPT !.code = 400, !.error = "invalid_amount"]
           ELSE IF policy_type = None
           THEN aresp' = [base EXCEPT !.code = 400, !.error = "missing_required_fields"]
           ELSE IF card_type_code \notin CardTypes
           THEN aresp' = [base EXCEPT !.code = 404, !.error = "card_type_not_found",
                                      !.lookups = {"insurance_card_types"}]
           ELSE LET found == [base EXCEPT
                                !.card_type_id = card_type_code,
                                !.lookups = {"insurance_card_types",
                                             "coverage_policies"}]
                IN  \E policies \in Orders(find_applicable_policies(
                            card_type_code, policy_type, facility_level, today)) :
                        aresp' = coverage_response(found, policies,
                                                   total_amount.value, 404)
    /\ UNCHANGED <<today, cards, vresp, eresp>>

\* ------------------------------------------------- sessions and tokens
Users == {"u1", "admin"}
UserInputs == Users \cup {"nouser"}
Logins == 1..MaxLogins

\* User.role
role(u) == IF u = "admin" THEN "admin" ELSE "patient"

\* the jti claim of the access token of login n: a UUID string
Jti(n) == <<"jti", n>>

\* hashlib.sha256(access_token.encode()).hexdigest() of the access token of
\* login n: 64 hexadecimal digits over the whole encoded token, never a UUID
Sha256(n) == <<"sha256", n>>

NoUserResponse == [op |-> None, code |-> 0, logins |-> {}]

\* token_in_blocklist_loader: the token of login n is looked up by its jti
check_if_token_revoked(n) == tokens[n].jti \in blacklisted_tokens

\* POST /login with the credentials of user u
login(u) ==
    /\ Cardinality(DOMAIN tokens) < MaxLogins
    /\ LET n == Cardinality(DOMAIN tokens) + 1
       IN  /\ tokens' = tokens @@ (n :> [jti |-> Jti(n), identity |-> u])
           /\ user_sessions' = user_sessions
                  @@ (n :> [user_id |-> u, token_hash |-> Sha256(n)])
           /\ uresp' = [op |-> "login", code |-> 200, logins |-> {n}]
    /\ UNCHANGED blacklisted_tokens

\* the response of jwt_required to a revoked token
Unauthorized(op, n) ==
    /\ uresp' = [op |-> op, code |-> 401, logins |-> {n}]
    /\ UNCHANGED <<tokens, user_sessions, blacklisted_tokens>>

\* POST /logout with the access token of login n
logout(n) ==
    /\ n \in DOMAIN tokens
    /\ IF check_if_token_revoked(n) THEN Unauthorized("logout", n)
       ELSE /\ blacklisted_tokens' = blacklisted_tokens \cup {tokens[n].jti}
            /\ uresp' = [op |-> "logout", code |-> 200, logins |-> {n}]
            /\ UNCHANGED <<tokens, user_sessions>>

\* any jwt_required endpoint called with the access token of login n
protected_request(n) ==
    /\ n \in DOMAIN tokens
    /\ IF check_if_token_revoked(n) THEN Unauthorized("request", n)
       ELSE /\ uresp' = [op |-> "request", code |-> 200, logins |-> {n}]
            /\ UNCHANGED <<tokens, user_sessions, blacklisted_tokens>>

\* DELETE /<user_id>/sessions/<session_id> with the access token of login n
revoke_user_session(n, user_id, session_id) ==
    /\ n \in DOMAIN tokens
    /\ IF check_if_token_revoked(n) THEN Unauthorized("revoke_user_session", n)
       ELSE IF tokens[n].identity # user_id /\ role(tokens[n].identity) # "admin"
       THEN /\ uresp' = [op |-> "revoke_user_session", code |-> 403, logins |-> {}]
            /\ UNCHANGED <<tokens, user_sessions, blacklisted_tokens>>
       ELSE IF \/ session_id \notin DOMAIN user_sessions
               \/ user_sessions[session_id].user_id # user_id
       THEN /\ uresp' = [op |-> "revoke_user_session", code |-> 404, logins |-> {}]
            /\ UNCHANGED <<tokens, user_sessions, blacklisted_tokens>>
       ELSE /\ blacklisted_tokens' =
                  blacklisted_tokens \cup {user_sessions[session_id].token_hash}
            /\ user_sessions' = [i \in DOMAIN user_sessions \ {session_id} |->
                                    user_sessions[i]]
            /\ uresp' = [op |-> "revoke_user_session", code |-> 200,
                         logins |-> {session_id}]
            /\ UNCHANGED tokens

\* POST /users/<user_id>/force-logout with the access token of login n
force_logout_user(n, user_id) ==
    /\ n \in DOMAIN tokens
    /\ IF check_if_token_revoked(n) THEN Unauthorized("force_logout_user", n)
       ELSE IF role(tokens[n].identity) # "admin"
       THEN /\ uresp' = [op |-> "force_logout_user", code |-> 403, logins |-> {}]
            /\ UNCHANGED <<tokens, user_sessions, blacklisted_tokens>>
       ELSE IF user_id \notin Users
       THEN /\ uresp' = [op |-> "force_logout_user", code |-> 404, logins |-> {}]
            /\ UNCHANGED <<tokens, user_sessions, blacklisted_tokens>>
       ELSE LET active_sessions ==
                    {i \in DOMAIN user_sessions : user_sessions[i].user_id = user_id}
            IN  /\ blacklisted_tokens' = blacklisted_tokens
                      \cup {user_sessions[i].token_hash : i \in active_sessions}
                /\ user_sessions' = [i \in DOMAIN user_sessions \ active_sessions |->
                                        user_sessions[i]]
                /\ uresp' = [op |-> "force_logout_user", code |-> 200,
                             logins |-> active_sessions]
                /\ UNCHANGED tokens

\* --------------------------------------------------- gateway circuit breaker
Callers == {"c1", "c2"}

\* CircuitBreaker.__init__
CircuitBreaker(failure_threshold, recovery_timeout) ==
    [failure_threshold |-> failure_threshold, recovery_timeout |-> recovery_timeout,
     failure_count |-> 0, last_failure_time |-> Null, state |-> "closed"]

\* CircuitBreaker._should_attempt_reset at time t
should_attempt_reset(b, t) ==
    /\ ~IsNull(b.last_failure_time)
    /\ Val(b.last_failure_time) # 0
    /\ t - Val(b.last_failure_time) >= b.recovery_timeout

\* CircuitBreaker._on_success
on_success(b) == [b EXCEPT !.failure_count = 0, !.state = "closed"]

on_failure_above(b, t) ==
    [b EXCEPT !.failure_count = @ + 1, !.last_failure_time = Some(t),
              !.state = IF b.failure_count + 1 > b.failure_threshold
                        THEN "open" ELSE @]

\* CircuitBreaker._on_failure at time t
on_failure(b, t) ==
    [b EXCEPT !.failure_count = @ + 1, !.last_failure_time = Some(t),
              !.state = IF b.failure_count + 1 >= b.failure_threshold
                        THEN "open" ELSE @]

IdleCall == [phase |-> "idle", outcome |-> None]

\* CircuitBreaker.call up to its await: the state check, then the wrapped
\* function is invoked
call(c) ==
    /\ calls[c].phase = "idle"
    /\ IF breaker.state = "open"
       THEN IF should_attempt_reset(breaker, clock)
            THEN /\ breaker' = [breaker EXCEPT !.state = "half-open"]
                 /\ calls' = [calls EXCEPT ![c] = [phase |-> "awaiting",
                                                   outcome |-> None]]
            ELSE /\ calls' = [calls EXCEPT ![c] = [phase |-> "idle",
                                                   outcome |-> "503"]]
                 /\ UNCHANGED breaker
       ELSE /\ calls' = [calls EXCEPT ![c] = [phase |-> "awaiting", outcome |-> None]]
            /\ UNCHANGED breaker
    /\ UNCHANGED clock

\* the awaited function returns
call_returns(c) ==
    /\ calls[c].phase = "awaiting"
    /\ breaker' = on_success(breaker)
    /\ calls' = [calls EXCEPT ![c] = [phase |-> "idle", outcome |-> "returned"]]
    /\ UNCHANGED clock

\* the awaited function raises an Exception
call_raises(c) ==
    /\ calls[c].phase = "awaiting"
    /\ breaker.failure_count < MaxFailureCount
    /\ breaker' = on_failure(breaker, clock)
    /\ calls' = [calls EXCEPT ![c] = [phase |-> "idle", outcome |-> "raised"]]
    /\ UNCHANGED clock

\* the awaiting task is cancelled: CancelledError is no Exception, neither
\* _on_success nor _on_failure runs
call_cancelled(c) ==
    /\ calls[c].phase = "awaiting"
    /\ calls' = [calls EXCEPT ![c] = [phase |-> "idle", outcome |-> "cancelled"]]
    /\ UNCHANGED <<breaker, clock>>

\* time passes at the gateway
Tick ==
    /\ clock < MaxClock
    /\ clock' = clock + 1
    /\ UNCHANGED <<breaker, calls>>

\* ------------------------------------------------------------ specifications
\* the user-management service before any login
InitUsers ==
    /\ tokens = <<>>
    /\ user_sessions = <<>>
    /\ blacklisted_tokens = {}
    /\ uresp = NoUserResponse

\* the gateway with a breaker just constructed
InitGateway ==
    /\ breaker = CircuitBreaker(1, 1)
    /\ calls = [c \in Callers |-> IdleCall]
    /\ clock = 1

InitClaims ==
    /\ now = 1
    /\ claims = <<>>
    /\ status_history = <<>>
    /\ pc = [p \in Creators |-> "idle"]
    /\ obj = [p \in Creators |-> EmptyObj]
    /\ req = [r \in Reviewers |-> IdleReq]
    /\ attempts = [p \in Creators |-> 0]

InitCards ==
    /\ today = 0
    /\ cards \in [CardNumbers -> CardRows]
    /\ vresp = NoResponse
    /\ eresp = NoResponse
    /\ aresp = NoAdjudication

\* the policy service at rest with one active card
InitCardsFixed ==
    /\ today = 0
    /\ cards = [n \in CardNumbers |->
                  [status |-> "active", card_type_id |-> "TE1",
                   valid_from |-> 1, valid_to |-> 1]]
    /\ vresp = NoResponse
    /\ eresp = NoResponse
    /\ aresp = NoAdjudication

Init == InitClaims /\ InitCardsFixed /\ InitUsers /\ InitGateway

\* concurrent claim creations
Next ==
    \/ \E p \in Creators : Construct(p) /\ UNCHANGED nonClaimVars
    \/ \E p \in Creators : Save(p) /\ UNCHANGED nonClaimVars
    \/ \E p \in Creators : SaveFails(p) /\ UNCHANGED nonClaimVars
    \/ NextMonth /\ UNCHANGED nonClaimVars

Spec == Init /\ [][Next]_vars

\* the greatest sequence numbers a month's stored claims can have reached
StoredMaxima == {Format06(999998), Format06(999999)}

\* a month that already holds a claim (filed by an earlier request, "k0") with
\* one of the greatest numbers
InitNumbers ==
    /\ InitCardsFixed /\ InitUsers /\ InitGateway
    /\ now = 1
    /\ \E seq \in StoredMaxima :
          claims = ("k0" :> [EmptyObj EXCEPT
                               !.claim_number = [prefix |-> 1, seq |-> seq],
                               !.status = "submitted", !.total_amount = 44,
                               !.patient_payment = 44])
    /\ status_history = ("k0" :> AppendStatusHistory(<<>>, InitialEntry("submitted")))
    /\ pc = [p \in Creators |-> "idle"]
    /\ obj = [p \in Creators |-> EmptyObj]
    /\ req = [r \in Reviewers |-> IdleReq]
    /\ attempts = [p \in Creators |-> 0]

\* concurrent claim creations late in a busy month
SpecNumbers == InitNumbers /\ [][Next]_vars

\* claim creations with the bounded retry of the number assignment
NextRetry ==
    \/ \E p \in Creators : Construct(p) /\ UNCHANGED nonClaimVars
    \/ \E p \in Creators : Save(p) /\ UNCHANGED nonClaimVars
    \/ \E p \in Creators : SaveFails(p) /\ UNCHANGED nonClaimVars
    \/ \E p \in Creators : Reassign(p) /\ UNCHANGED nonClaimVars

\* what a creation request that has built its claim does next
Handle(p) == (Save(p) \/ SaveFails(p) \/ Reassign(p)) /\ UNCHANGED nonClaimVars

\* a request handler, once started, runs on until it returns
SpecRetry ==
    InitNumbers /\ [][NextRetry]_vars /\ \A p \in Creators : WF_vars(Handle(p))

LifecycleClaims == {"k1"}

\* claims under review by concurrent reviewers
NextLifecycle ==
    \/ \E p \in LifecycleClaims : Construct(p) /\ UNCHANGED nonClaimVars
    \/ \E p \in LifecycleClaims : Save(p) /\ UNCHANGED nonClaimVars
    \/ \E p \in LifecycleClaims : SaveFails(p) /\ UNCHANGED nonClaimVars
    \/ \E r \in Reviewers, c \in LifecycleClaims : Fetch(r, c) /\ UNCHANGED nonClaimVars
    \/ \E r \in Reviewers, s \in ALL_STATUSES, reason \in Reasons :
          Transition(r, s, reason) /\ UNCHANGED nonClaimVars

SpecLifecycle == Init /\ [][NextLifecycle]_vars

\* card validation over every stored card and every date
NextCards ==
    \/ \E n \in CardInputs : validate_card(n) /\ UNCHANGED nonCardVars
    \/ \E n \in CardInputs : check_eligibility(n) /\ UNCHANGED nonCardVars
    \/ NextDay /\ UNCHANGED nonCardVars

InitCardService == InitClaims /\ InitCards /\ InitUsers /\ InitGateway

SpecCards == InitCardService /\ [][NextCards]_vars

\* the policy service with one active card, valid on the inner days
InitAdjudication ==
    /\ InitClaims /\ InitUsers /\ InitGateway
    /\ today = 0
    /\ cards = [n \in CardNumbers |->
                  [status |-> "active", card_type_id |-> "TE1",
                   valid_from |-> 1, valid_to |-> MaxDay - 1]]
    /\ vresp = NoResponse
    /\ eresp = NoResponse
    /\ aresp = NoAdjudication

\* adjudication requests of every kind, on every date
NextAdjudication ==
    \/ \E n \in CardInputs, f \in FacilityInputs, t \in PolicyTypeInputs,
          a \in AmountInputs, d \in Dates :
          validate_policy(n, f, t, a, d) /\ UNCHANGED nonPolicyVars
    \/ \E c \in CardTypeInputs, t \in PolicyTypeInputs \cup {None}, l \in LevelInputs,
          a \in AmountInputs :
          calculate_coverage_route(c, t, l, a) /\ UNCHANGED nonPolicyVars
    \/ NextDay /\ UNCHANGED <<nonPolicyVars, adjVars>>

SpecAdjudication == InitAdjudication /\ [][NextAdjudication]_vars

\* logins, logouts and revocations by users and an administrator
InitSessions == InitClaims /\ InitCardsFixed /\ InitUsers /\ InitGateway

NextSessions ==
    \/ \E u \in Users : login(u) /\ UNCHANGED nonUserVars
    \/ \E n \in Logins : logout(n) /\ UNCHANGED nonUserVars
    \/ \E n \in Logins : protected_request(n) /\ UNCHANGED nonUserVars
    \/ \E n \in Logins, u \in Users, i \in Logins :
          revoke_user_session(n, u, i) /\ UNCHANGED nonUserVars
    \/ \E n \in Logins, u \in UserInputs :
          force_logout_user(n, u) /\ UNCHANGED nonUserVars

SpecSessions == InitSessions /\ [][NextSessions]_vars

\* concurrent calls through a breaker of any threshold and timeout
InitBreaker ==
    /\ InitClaims /\ InitCardsFixed /\ InitUsers
    /\ \E failure_threshold \in 1..MaxThreshold, recovery_timeout \in 1..MaxTimeout :
          breaker = CircuitBreaker(failure_threshold, recovery_timeout)
    /\ calls = [c \in Callers |-> IdleCall]
    /\ clock = 1

NextBreaker ==
    \/ \E c \in Callers : call(c) /\ UNCHANGED nonGatewayVars
    \/ \E c \in Callers : call_returns(c) /\ UNCHANGED nonGatewayVars
    \/ \E c \in Callers : call_raises(c) /\ UNCHANGED nonGatewayVars
    \/ \E c \in Callers : call_cancelled(c) /\ UNCHANGED nonGatewayVars
    \/ Tick /\ UNCHANGED nonGatewayVars

SpecBreaker == InitBreaker /\ [][NextBreaker]_vars

\* ------------------------------------------------------------------ claims
SeqOf(number) == ToInt(Last6(number.seq))
InFlightOrSaved(p) == pc[p] \in {"constructed", "saved"}
Generates(p) == pc[p] = "idle" /\ pc'[p] = "constructed"
Applies(r) == req[r].phase = "fetched" /\ req'[r].phase = "done"

\* C1: no two claims created concurrently in one month hold the same sequence
\* number, under every interleaving of the generator's read and the commits.
C1_NoSharedSequenceNumber ==
    \A p, q \in Creators :
        (p # q /\ InFlightOrSaved(p) /\ InFlightOrSaved(q)
              /\ obj[p].claim_number.prefix = obj[q].claim_number.prefix)
        => SeqOf(obj[p].claim_number) # SeqOf(obj[q].claim_number)

\* C2: within one month key every generator call returns a sequence greater than
\* every sequence issued before it in that month, and the first call returns 1.
C2_StrictlyIncreasing ==
    [][\A p \in Creators :
          Generates(p) =>
             LET n == obj'[p].claim_number
                 before == {q \in Creators :
                               obj[q].claim_number.prefix = n.prefix}
             IN  /\ before = {} => SeqOf(n) = 1
                 /\ \A q \in before : SeqOf(n) > SeqOf(obj[q].claim_number)]_vars

\* C3: a number whose claim failed to persist is never handed out again: the
\* next generator call of that month returns a larger one.
C3_BurnedNeverReused ==
    [][\A p \in Creators :
          Generates(p) =>
             \A q \in Creators :
                (pc[q] = "persist_error"
                   /\ obj[q].claim_number.prefix = obj'[p].claim_number.prefix)
                => SeqOf(obj'[p].claim_number) > SeqOf(obj[q].claim_number)]_vars

\* C4: a claim's status changes only along the four lifecycle edges; a
\* Transition for any other pair fails with InvalidTransition and leaves the
\* status as it was; a rejected or paid claim never changes status.
C4_OnlyLifecycleEdges ==
    [][LET Edges == {<<"submitted", "reviewing">>, <<"reviewing", "approved">>,
                     <<"reviewing", "rejected">>, <<"approved", "paid">>}
       IN  /\ \A c \in DOMAIN claims :
                 /\ claims'[c].status # claims[c].status
                    => <<claims[c].status, claims'[c].status>> \in Edges
                 /\ claims[c].status \in {"rejected", "paid"}
                    => claims'[c].status = claims[c].status
           /\ \A r \in Reviewers :
                 Applies(r) =>
                    LET c == req[r].claim
                        pair == <<claims[c].status, req'[r].new_status>>
                    IN  IF pair \in Edges
                        THEN /\ req'[r].result = "ok"
                             /\ claims'[c].status = req'[r].new_status
                        ELSE /\ req'[r].result = "InvalidTransition"
                             /\ claims'[c].status = claims[c].status]_vars

\* a claim went through submitted, reviewing, approved, paid, and a transition
\* asked of the paid claim was refused
C4_Witness ==
    \E r \in Reviewers :
        /\ req[r].phase = "done" /\ req[r].result = "InvalidTransition"
        /\ req[r].seen = "paid"
        /\ claims[req[r].claim].status = "paid"
        /\ Len(status_history[req[r].claim]) = 4

Conflicting(r1, r2) ==
    /\ r1 # r2
    /\ req[r1].phase = "done" /\ req[r2].phase = "done"
    /\ req[r1].claim = req[r2].claim
    /\ req[r1].seen = req[r2].seen
    /\ req[r1].new_status # req[r2].new_status
    /\ <<req[r1].seen, req[r1].new_status>> \in AllowedTransitions
    /\ <<req[r2].seen, req[r2].new_status>> \in AllowedTransitions

Recorded(r) ==
    \E i \in 1..Len(status_history[req[r].claim]) :
        LET e == status_history[req[r].claim][i]
        IN  e.changed_by = r /\ e.old_status = req[r].seen
               /\ e.new_status = req[r].new_status

\* C5: of two reviewers who apply conflicting transitions to one claim seen in
\* one status, at most one succeeds; the other gets InvalidTransition and its
\* transition is in neither the status nor the history.
C5_OneWinner ==
    \A r1, r2 \in Reviewers :
        Conflicting(r1, r2) =>
           /\ ~(req[r1].result = "ok" /\ req[r2].result = "ok")
           /\ req[r1].result = "ok" =>
                 /\ req[r2].result = "InvalidTransition"
                 /\ ~Recorded(r2)
                 /\ claims[req[r1].claim].status # req[r2].new_status
                 /\ \E i \in 1..Len(status_history[req[r1].claim]) :
                       status_history[req[r1].claim][i].new_status = req[r1].new_status
                 /\ \A i \in 1..Len(status_history[req[r1].claim]) :
                       status_history[req[r1].claim][i].new_status # req[r2].new_status

\* one reviewer approved and the other, who saw the same reviewing claim, was
\* refused the rejection
C5_Witness ==
    \E r1, r2 \in Reviewers :
        /\ Conflicting(r1, r2)
        /\ req[r1].seen = "reviewing"
        /\ req[r1].new_status = "approved" /\ req[r1].result = "ok"
        /\ req[r2].new_status = "rejected" /\ req[r2].result = "InvalidTransition"

\* C6: every newly created claim is committed with status submitted, whatever
\* the caller supplied, with exactly one history entry (null -> submitted).
C6_CreatedSubmitted ==
    [][\A p \in Creators :
          (pc[p] = "constructed" /\ pc'[p] = "saved") =>
             /\ claims'[p].status = "submitted"
             /\ Len(status_history'[p]) = 1
             /\ status_history'[p][1].old_status = None
             /\ status_history'[p][1].new_status = "submitted"]_vars

\* C7: a successful Transition appends exactly one entry (status before, new
\* status, actor, reason); a failed one appends none; entries are never
\* modified or removed.
C7_HistoryAppendOnly ==
    [][\A c \in DOMAIN status_history :
          LET h == status_history[c]
              h2 == status_history'[c]
              appliers == {r \in Reviewers : Applies(r) /\ req[r].claim = c}
          IN  /\ Len(h2) >= Len(h)
              /\ SubSeq(h2, 1, Len(h)) = h
              /\ appliers = {} => h2 = h
              /\ \A r \in appliers :
                    IF req'[r].result = "ok"
                    THEN /\ Len(h2) = Len(h) + 1
                         /\ h2[Len(h2)].old_status = claims[c].status
                         /\ h2[Len(h2)].new_status = req'[r].new_status
                         /\ h2[Len(h2)].new_status = claims'[c].status
                         /\ h2[Len(h2)].changed_by = r
                         /\ h2[Len(h2)].reason = req'[r].reason
                    ELSE h2 = h]_vars

\* the history holds three transitions by two actors, one with a reason and one
\* without, and a later transition was refused
C7_Witness ==
    \E c \in DOMAIN status_history, r \in Reviewers :
        /\ Len(status_history[c]) = 4
        /\ \E i, j \in 2..4 :
              /\ status_history[c][i].changed_by # status_history[c][j].changed_by
              /\ status_history[c][i].reason = None
              /\ status_history[c][j].reason # None
        /\ req[r].phase = "done" /\ req[r].claim = c
        /\ req[r].result = "InvalidTransition"

\* C8: covered_amount and patient_payment are those of the adjudication result
\* the claim was created from, no transition changes them, and always
\* covered_amount + patient_payment = total_amount, covered_amount <= total_amount.
C8_AmountsFixed ==
    /\ [](\A c \in DOMAIN claims :
             /\ claims[c].covered_amount = obj[c].covered_amount
             /\ claims[c].patient_payment = obj[c].patient_payment
             /\ claims[c].total_amount = obj[c].total_amount
             /\ claims[c].covered_amount + claims[c].patient_payment
                   = claims[c].total_amount
             /\ claims[c].covered_amount <= claims[c].total_amount)
    /\ [][\A c \in DOMAIN claims :
             /\ claims'[c].covered_amount = claims[c].covered_amount
             /\ claims'[c].patient_payment = claims[c].patient_payment
             /\ claims'[c].total_amount = claims[c].total_amount]_vars

\* a claim with a covered part and a patient part was paid after three
\* transitions, and a further transition was refused
C8_Witness ==
    \E c \in DOMAIN claims, r \in Reviewers :
        /\ claims[c].status = "paid" /\ Len(status_history[c]) = 4
        /\ claims[c].covered_amount > 0 /\ claims[c].patient_payment > 0
        /\ req[r].claim = c /\ req[r].result = "InvalidTransition"
        /\ req[r].new_status = "submitted"

\* the violated conditions of a response, counted
Violations(resp) ==
    (IF resp.card.status # "active" THEN 1 ELSE 0)
    + (IF resp.check_date < resp.card.valid_from THEN 1 ELSE 0)
    + (IF resp.check_date > resp.card.valid_to THEN 1 ELSE 0)

HasReason(resp, kind) == \E i \in 1..Len(resp.reasons) : resp.reasons[i].kind = kind

\* C9: is_valid is true exactly of an active card whose window holds the date,
\* both ends included, for every status and date; validation changes no card.
C9_ValidIffActiveInWindow ==
    /\ [](\A resp \in {vresp, eresp} :
             resp.code = 200 =>
                (resp.is_valid <=>
                   /\ resp.card.status = "active"
                   /\ ~(resp.check_date < resp.card.valid_from)
                   /\ ~(resp.check_date > resp.card.valid_to)))
    /\ [][cards' = cards]_vars

\* a card was found valid on the last day of its window and invalid, though
\* active, the day after
C9_Witness ==
    /\ vresp.code = 200 /\ vresp.is_valid
    /\ vresp.check_date = vresp.card.valid_to
    /\ vresp.check_date > vresp.card.valid_from
    /\ eresp.code = 200 /\ ~eresp.is_valid
    /\ eresp.card.status = "active"
    /\ eresp.check_date = eresp.card.valid_to + 1

\* C10: the reason list of a response holds one reason for each violated
\* condition and none for a condition that holds; it is non-empty exactly when
\* the card is not valid.
C10_ReasonsEnumerateViolations ==
    \A resp \in {vresp, eresp} :
        resp.code = 200 =>
           /\ HasReason(resp, "status") <=> resp.card.status # "active"
           /\ HasReason(resp, "not_yet_valid") <=> resp.check_date < resp.card.valid_from
           /\ HasReason(resp, "expired") <=> resp.check_date > resp.card.valid_to
           /\ \A i \in 1..Len(resp.reasons) :
                 resp.reasons[i].kind = "status"
                 => resp.reasons[i].status = resp.card.status
           /\ Len(resp.reasons) = Violations(resp)
           /\ (resp.reasons # <<>>) <=> ~resp.is_valid

\* a suspended card got two reasons before its window and two after it
C10_Witness ==
    /\ vresp.code = 200 /\ Len(vresp.reasons) = 2
    /\ vresp.card.status = "suspended"
    /\ vresp.check_date > vresp.card.valid_to
    /\ eresp.code = 200 /\ Len(eresp.reasons) = 2
    /\ eresp.check_date < eresp.card.valid_from

\* ------------------------------------------------- adjudication properties
\* the last adjudication request reached the policy resolver
Resolved == "coverage_policies" \in aresp.lookups
Succeeded == aresp.code = 200
Candidates == {aresp.policies[i] : i \in 1..Len(aresp.policies)}
Calculations == {aresp.all_applicable_policies[i] :
                    i \in 1..Len(aresp.all_applicable_policies)}
PolicyOf(calc) == CHOOSE p \in Policies : p.id = calc.policy

\* the stored policies the filtering predicate selects for the last request
Matching ==
    {p \in Policies :
        /\ p.card_type_id = aresp.card_type_id
        /\ p.policy_type = aresp.policy_type
        /\ p.facility_level = aresp.facility_level
        /\ p.is_active
        /\ p.effective_from <= aresp.check_date
        /\ (p.effective_to = Null \/ \E e \in p.effective_to : e >= aresp.check_date)}

\* C11: the resolver returns exactly the stored policies with matching card
\* type, policy type and facility level, is_active true, effective_from <=
\* asOfDate and effective_to absent or >= asOfDate: a policy that ended strictly
\* before asOfDate is excluded, one that ends on asOfDate is included, one
\* without an end is included on every date from effective_from on.
C11_ResolverPredicate ==
    Resolved =>
        /\ (Succeeded => Candidates = Matching)
        /\ (~Succeeded => Matching = {})
        /\ \A p \in Policies :
              /\ p.card_type_id = aresp.card_type_id
              /\ p.policy_type = aresp.policy_type
              /\ p.facility_level = aresp.facility_level
              /\ p.is_active
              /\ p.effective_from <= aresp.check_date
              => /\ (\E e \in p.effective_to : e < aresp.check_date)
                       => p \notin Candidates
                 /\ (\E e \in p.effective_to : e = aresp.check_date)
                       => p \in Candidates
                 /\ p.effective_to = Null => p \in Candidates

\* validate_policy resolved, for the day a policy ends on, that policy and one
\* without an end, and left out the inactive policy of the same key
C11_Witness ==
    /\ aresp.endpoint = "validate_policy" /\ Succeeded
    /\ \E p \in Candidates : p.effective_to = {aresp.check_date}
    /\ \E p \in Candidates : p.effective_to = Null /\ p.effective_from < aresp.check_date
    /\ \E p \in Policies \ Candidates :
          /\ ~p.is_active
          /\ p.card_type_id = aresp.card_type_id
          /\ p.policy_type = aresp.policy_type
          /\ p.facility_level = aresp.facility_level

\* C12: for every policy with a percentage in 0..100 and every billed amount an
\* entry point accepts, the covered amount is between 0 and the billed amount.
C12_CoveredWithinBilled ==
    Succeeded =>
        \A calc \in Calculations :
            /\ PolicyOf(calc).coverage_percentage \in 0..100
            => /\ 0 <= calc.covered_amount
               /\ calc.covered_amount <= aresp.total_amount.value

\* C13: in every reported calculation covered_amount + patient_payment equals
\* the billed amount exactly, in the arithmetic the amounts are reported in.
C13_Reconciles ==
    Succeeded =>
        \A calc \in Calculations :
            fadd(float(calc.covered_amount), calc.patient_payment)
                = float(aresp.total_amount.value)

\* the policy of the deductible example
DeductibleExample ==
    [id |-> "example", card_type_id |-> "TE1", policy_type |-> "outpatient",
     facility_level |-> "district", coverage_percentage |-> 80, max_amount |-> Null,
     deductible |-> Some(10000000),
     effective_from |-> 0, effective_to |-> Null, is_active |-> TRUE]

\* C14: for an applicable policy the covered amount is
\* min(cap, max(0, billed - deductible) * percentage / 100), to two decimals:
\* deductible first, then the percentage, then the cap; deductible 100000 at 80%
\* on a bill of 1000000 gives 720000 and leaves 280000, and a bill that does not
\* exceed the deductible gives 0.
C14_DeductiblePercentCap ==
    /\ Succeeded =>
          \A calc \in Calculations :
              LET p == PolicyOf(calc)
                  after == Max2(0, aresp.total_amount.value - OrZero(p.deductible))
                  percent == Round2((after \div 100) * p.coverage_percentage,
                                    (after % 100) * p.coverage_percentage, 100)
              IN  is_applicable(p, aresp.calc_date) =>
                     /\ calc.covered_amount =
                           IF p.max_amount = Null THEN percent
                           ELSE Min2(Val(p.max_amount), percent)
                     /\ aresp.total_amount.value <= OrZero(p.deductible)
                           => calc.covered_amount = 0
    /\ calculate_coverage(DeductibleExample, 100000000, today) = 72000000
    /\ fsub(float(100000000), float(72000000)) = float(28000000)

\* the policy of the cap example
CapExample ==
    [DeductibleExample EXCEPT !.coverage_percentage = 100,
                              !.max_amount = Some(50000000), !.deductible = Some(0)]

\* C15: whenever max_amount is set, 0 included, the covered amount never
\* exceeds it; 100% with max_amount 500000 on a bill of 1000000 gives 500000.
C15_CapEnforced ==
    /\ Succeeded =>
          \A calc \in Calculations :
              \A cap \in PolicyOf(calc).max_amount : calc.covered_amount <= cap
    /\ calculate_coverage(CapExample, 100000000, today) = 50000000

\* C16: a policy that is not applicable on the day of the calculation
\* (inactive, or the day before effective_from, or after a present
\* effective_to) gets a covered amount of 0 whatever its percentage, deductible
\* and cap, and the patient payment is then the whole billed amount.
C16_NotApplicableCoversNothing ==
    /\ \A p \in Policies, t \in BilledValues :
          \/ ~p.is_active
          \/ today < p.effective_from
          \/ \E e \in p.effective_to : today > e
          => calculate_coverage(p, t, today) = 0
    /\ Succeeded =>
          \A calc \in Calculations :
              LET p == PolicyOf(calc)
              IN  \/ ~p.is_active
                  \/ aresp.calc_date < p.effective_from
                  \/ \E e \in p.effective_to : aresp.calc_date > e
                  => /\ calc.covered_amount = 0
                     /\ calc.patient_payment = float(aresp.total_amount.value)

\* validate_policy, asked about a past service date, calculated with a policy
\* that has ended since (100% of the bill above its deductible) and with one
\* still in force
C16_Witness ==
    /\ aresp.endpoint = "validate_policy" /\ Succeeded
    /\ aresp.check_date < aresp.calc_date
    /\ \E calc \in Calculations :
          /\ \E e \in PolicyOf(calc).effective_to : aresp.calc_date > e
          /\ PolicyOf(calc).coverage_percentage = 100
          /\ aresp.total_amount.value > OrZero(PolicyOf(calc).deductible)
          /\ calc.covered_amount = 0
          /\ calc.patient_payment = float(aresp.total_amount.value)
    /\ \E calc \in Calculations : calc.covered_amount > 0

\* C17: the calculation selected as best is one of the candidates' and has a
\* covered amount >= and a patient payment <= that of every candidate.
C17_BestMaximisesCovered ==
    Succeeded =>
        /\ aresp.best \in Calculations
        /\ \A calc \in Calculations :
              /\ calc.covered_amount <= aresp.best.covered_amount
              /\ FloatLeq(aresp.best.patient_payment, calc.patient_payment)

\* an entry point chose, among candidates of different covered amounts, one
\* that the resolver did not return first
C17_Witness ==
    /\ Succeeded
    /\ Len(aresp.all_applicable_policies) >= 2
    /\ aresp.best # aresp.all_applicable_policies[1]
    /\ aresp.all_applicable_policies[1].covered_amount < aresp.best.covered_amount
    /\ aresp.all_applicable_policies[1].covered_amount > 0

\* the identifiers in lexicographic order
PolicyIds == <<"p1", "p2", "p3", "p4", "p5", "p6", "p7">>
IdRank(id) == CHOOSE i \in 1..Len(PolicyIds) : PolicyIds[i] = id

\* C18: of the candidates that tie on the maximal covered amount the one with
\* the lexicographically smallest identifier is selected, whatever the order
\* the resolver returned them in.
C18_TieToSmallestId ==
    Succeeded =>
        \A calc \in Calculations :
            calc.covered_amount = aresp.best.covered_amount
            => IdRank(aresp.best.policy) <= IdRank(calc.policy)

\* C19: when no policy matches, the resolver returns the empty set and the
\* entry point reports the no-applicable-policy condition, never a successful
\* zero-coverage result and never an internal failure.
C19_NoPolicyIsReported ==
    /\ Resolved /\ Matching = {}
       => /\ aresp.error = "no_applicable_policy"
          /\ aresp.code \in {400, 404}
          /\ aresp.policies = <<>> /\ aresp.all_applicable_policies = <<>>
          /\ aresp.best = NoCalculation
    /\ aresp.error = "no_applicable_policy" => Resolved /\ Matching = {}
    /\ aresp.code # 500

\* validate_policy found an active facility of a level no policy of the card's
\* type covers
C19_Witness ==
    /\ aresp.endpoint = "validate_policy"
    /\ Resolved /\ Matching = {}
    /\ aresp.facility_level = "central" /\ aresp.card_type_id = "TE1"
    /\ aresp.total_amount.value > 0
    /\ aresp.error = "no_applicable_policy"

\* C20: a billed amount that is <= 0 or no number is rejected as invalid before
\* any card, card-type, facility or policy lookup, and no coverage result is
\* produced for it.
C20_InvalidAmountRejectedFirst ==
    /\ aresp.endpoint # None
    /\ ~aresp.total_amount.numeric \/ aresp.total_amount.value <= 0
    => /\ aresp.code = 400
       /\ aresp.error \in {"validation_error", "invalid_amount"}
       /\ aresp.lookups = {}
       /\ aresp.all_applicable_policies = <<>>


\* C21: when validate_policy finds the card and the card fails validation at
\* the service date, the card-invalid outcome carries the full list of violated
\* conditions (status mismatch, too early, too late) that the explanation of
\* the card's validity produces.
C21_CardInvalidCarriesReasons ==
    aresp.error = "card_invalid" =>
        /\ aresp.reasons # <<>>
        /\ aresp.reasons = validate_card_reasons(aresp.card_details, aresp.check_date)

\* validate_policy rejected the request r at the facility check
FacilityRejected(r) ==
    /\ r.endpoint = "validate_policy" /\ r.code = 400
    /\ r.lookups = {"insurance_cards", "healthcare_facilities"}
UnknownFacility(r) == FacilityRejected(r) /\ r.facility_code \notin DOMAIN Facilities
InactiveFacility(r) ==
    /\ FacilityRejected(r) /\ r.facility_code \in DOMAIN Facilities
    /\ ~Facilities[r.facility_code].is_active

\* C22: an unknown facility code and a known but inactive facility give two
\* different outcomes, and in neither case is a policy resolved or a coverage
\* computed.
C22_FacilityOutcomesDistinct ==
    [][/\ UnknownFacility(aresp) /\ InactiveFacility(aresp')
          => aresp.error # aresp'.error
       /\ FacilityRejected(aresp')
          => aresp'.policies = <<>> /\ aresp'.all_applicable_policies = <<>>]_vars

\* the two overlapping policies of the end-to-end scenario
SixtyPercent ==
    [DeductibleExample EXCEPT !.coverage_percentage = 60, !.deductible = Some(0)]
EightyCapped ==
    [DeductibleExample EXCEPT !.coverage_percentage = 80, !.deductible = Some(0),
                              !.max_amount = Some(30000000)]

\* what the two policies give on a bill of 500000, on every day
ScenarioAmounts ==
    \A p \in {SixtyPercent, EightyCapped}, d \in Dates :
        /\ calculate_coverage(p, 50000000, d) = 30000000
        /\ fsub(float(50000000), float(30000000)) = float(20000000)

\* C26: a successful validate_policy lists one entry for each policy the
\* resolver returned, each with that policy's own covered amount and patient
\* payment; the best policy is one of the entries and the summary amounts are
\* the best entry's.  60% uncapped and 80% capped at 300000 on a bill of 500000
\* both give covered 300000 and patient payment 200000.
C26_ResultBundlesEveryPolicy ==
    /\ aresp.endpoint = "validate_policy" /\ Succeeded =>
          /\ Len(aresp.all_applicable_policies) = Len(aresp.policies)
          /\ \A i \in 1..Len(aresp.policies) :
                LET calc == aresp.all_applicable_policies[i]
                    covered == calculate_coverage(aresp.policies[i],
                                                  aresp.total_amount.value,
                                                  aresp.calc_date)
                IN  /\ calc.policy = aresp.policies[i].id
                    /\ calc.covered_amount = covered
                    /\ calc.patient_payment =
                          PatientPayments[aresp.total_amount.value, covered]
          /\ \A i, j \in 1..Len(aresp.policies) :
                aresp.policies[i] = aresp.policies[j] => i = j
          /\ aresp.best \in Calculations
          /\ aresp.summary.covered_amount = aresp.best.covered_amount
          /\ aresp.summary.patient_payment = aresp.best.patient_payment
    /\ ScenarioAmounts

\* validate_policy answered with two policies whose covered amounts differ,
\* the best one second in the list, and a patient payment above zero
C26_Witness ==
    /\ aresp.endpoint = "validate_policy" /\ Succeeded
    /\ Len(aresp.all_applicable_policies) >= 2
    /\ aresp.all_applicable_policies[1].covered_amount
          < aresp.all_applicable_policies[2].covered_amount
    /\ aresp.best = aresp.all_applicable_policies[2]
    /\ aresp.summary.covered_amount > 0
    /\ aresp.summary.patient_payment # float(0)

\* C27: in validate_policy every policy the resolver returned for the service
\* date, back-dated ones included, gets the covered amount of the deductible /
\* percentage / cap formula with applicability evaluated at that service date,
\* so the result does not depend on the day the request is processed.
C27_CalculatedAtServiceDate ==
    aresp.endpoint = "validate_policy" /\ Succeeded =>
        \A calc \in Calculations :
            calc.covered_amount =
                calculate_coverage(PolicyOf(calc), aresp.total_amount.value,
                                   aresp.check_date)

\* C25: in every reachable state of a claim reviewed_at is set if and only if
\* its status is anything but submitted, and payment_date is set if and only if
\* its status is paid; a failed transition stamps neither.
C25_TimestampsFollowStatus ==
    [][/\ \A c \in DOMAIN claims' :
             /\ claims'[c].reviewed_at # Null <=> claims'[c].status # "submitted"
             /\ claims'[c].payment_date # Null <=> claims'[c].status = "paid"
       /\ \A r \in Reviewers :
             /\ req[r].phase = "fetched" /\ req'[r].result = "InvalidTransition"
             => claims' = claims]_vars

\* the history of claim c is a chain that ends in the claim's status
Chain(c) ==
    LET h == status_history[c]
    IN  /\ h # <<>>
        /\ h[1].old_status = None
        /\ \A i \in 2..Len(h) :
              /\ h[i].old_status = h[i - 1].new_status
              /\ <<h[i].old_status, h[i].new_status>> \in AllowedTransitions
        /\ h[Len(h)].new_status = claims[c].status

\* C28: after any sequence of creations and transitions each claim's status
\* history, in time order, is a chain: the first entry has old_status null,
\* every later entry's old_status is the previous entry's new_status, every
\* pair after the first is a lifecycle edge, and the last entry's new_status is
\* the claim's current status.
C28_HistoryIsChain ==
    /\ DOMAIN status_history = DOMAIN claims
    /\ \A c \in DOMAIN claims : Chain(c)

\* a claim went from submitted through reviewing and approved to paid, with
\* a refused transition in between
C28_Witness ==
    /\ \E c \in DOMAIN claims :
          /\ Len(status_history[c]) = 4
          /\ claims[c].status = "paid"
          /\ status_history[c][2].old_status = "submitted"
    /\ \E r \in Reviewers : req[r].result = "InvalidTransition"

\* the claim numbers generated so far: stored, or held by a creation request
NumbersIssued ==
    {claims[c].claim_number : c \in DOMAIN claims}
        \cup {obj[p].claim_number : p \in {q \in Creators : pc[q] # "idle"
                                                       /\ pc[q] # "value_error"}}

\* C23: every claim number the generator produces, after any number of claims
\* in a month, is the prefix (BHYT and the 6-digit YYYYMM) followed by exactly 6
\* zero-padded digits, 16 characters in all, and the last 6 characters of a
\* number give back the sequence that was issued.
C23_SixDigitsRecoverable ==
    \A n \in NumbersIssued :
        /\ Len(n.seq) = SeqWidth
        /\ \A i \in 1..Len(n.seq) : n.seq[i] \in 0..9
        /\ ToInt(Last6(n.seq)) = ToInt(n.seq)
        /\ Format06(ToInt(Last6(n.seq))) = n.seq

Returned == {"saved", "persist_error", "value_error", "SequenceExhaustionOrConflict"}

\* a step of creation request p that is a retry
Retries(p) == pc[p] = "integrity_error" /\ pc'[p] = "constructed"

\* C24: when the number assignment hits a conflict only the assignment step is
\* retried, automatically and a bounded number of times; the creation then ends
\* with a unique number or with SequenceExhaustionOrConflict, and never retries
\* forever.
C24_BoundedAssignmentRetry ==
    /\ [](\A p \in Creators :
             /\ attempts[p] <= RetryLimit
             /\ pc[p] = "SequenceExhaustionOrConflict" => attempts[p] = RetryLimit
             /\ pc[p] = "saved" =>
                   \A c \in DOMAIN claims \ {p} :
                       claims[c].claim_number # claims[p].claim_number)
    /\ [][\A p \in Creators : Retries(p) =>
             /\ attempts'[p] = attempts[p] + 1
             /\ obj'[p] = [obj[p] EXCEPT !.claim_number = obj'[p].claim_number]
             /\ UNCHANGED <<claims, status_history, aresp>>]_vars
    /\ \A p \in Creators :
          (pc[p] \in {"constructed", "integrity_error"}) ~> (pc[p] \in Returned)

\* a creation lost the number to a concurrent one that was saved, retried the
\* assignment RetryLimit times and then gave up
C24_Witness ==
    \E p, q \in Creators :
        /\ pc[p] = "saved" /\ attempts[p] = 0
        /\ pc[q] = "SequenceExhaustionOrConflict" /\ attempts[q] = RetryLimit
        /\ obj[q].claim_number = claims[p].claim_number

\* the last request revoked sessions, and succeeded
Revoked ==
    /\ uresp.op \in {"revoke_user_session", "force_logout_user"}
    /\ uresp.code = 200

C30_ClosedIffBelowThreshold ==
    /\ [](breaker.failure_threshold >= 1 =>
             (breaker.state = "closed"
                 <=> breaker.failure_count < breaker.failure_threshold))
    /\ [][\A c \in Callers :
             /\ calls[c].phase = "idle" /\ calls'[c] # calls[c]
             /\ breaker.state = "open"
             /\ \E t \in breaker.last_failure_time :
                   clock - t < breaker.recovery_timeout
             => /\ calls'[c] = [phase |-> "idle", outcome |-> "503"]
                /\ breaker' = breaker]_vars

\* the breaker opened at the threshold after one caller's failure was counted
\* while another call was in flight; time has passed, less than the timeout,
\* and a call got 503 while the other is still awaited
C30_Witness ==
    /\ breaker.state = "open" /\ breaker.failure_threshold > 1
    /\ breaker.failure_count = breaker.failure_threshold
    /\ \E t \in breaker.last_failure_time :
          clock > t /\ clock - t < breaker.recovery_timeout
    /\ \E c, d \in Callers : calls[c].outcome = "503" /\ calls[d].phase = "awaiting"
====
